---- MODULE Spec2Model ----
(***************************************************************************)
(* The per-endpoint plugin pipeline of the vicg gateway:                   *)
(*   defaultVicgFactory.New builds the pipeline of one endpoint (registry  *)
(*   lookup, construction, sort by Priority) and returns the executor      *)
(*   closure; the closure runs the ordered plugins against a fresh         *)
(*   response, stops at the first error and logs slow plugins.             *)
(***************************************************************************)
EXTENDS Integers, Sequences, FiniteSets, TLC

VARIABLES
    cfg,        \* cfg.Plugins of the endpoint: the plugin declarations, in order
    built,      \* TRUE once New has returned
    proxy,      \* the proxy.Proxy New returned: <<>> is nil, <<plugins>> the closure
    buildErr,   \* the error New returned
    pc,         \* position of the executor closure: "idle", "loop", "return", "done"
    request,    \* the *proxy.Request of the running execution
    response,   \* the *proxy.Response the running execution allocated
    err,        \* the closure's local err
    pos,        \* index (1-based) of the next plugin the range loop visits
    calls,      \* the HandleHTTPMessage calls of this execution, in order:
                \* the plugin (id), what it did to the response, what it returned
    last,       \* <<>> or <<the latest HandleHTTPMessage call of this execution>>
    logged,     \* the records this execution wrote to pf.logger
    result,     \* <<>> or <<what the closure returned>>
    constructed \* what New did: the declarations it looked up in the registry
                \* (lookups) and those whose factory it invoked (news), in order

\* the state of one endpoint's build and of one execution at a time
pipeVars == <<cfg, built, proxy, buildErr, pc, request, response, err, pos,
              calls, last, logged, result, constructed>>

VARIABLES
    sortTie,    \* the order sort.Slice leaves equal elements of this input in
    pipes,      \* the builds of the endpoint: what each call of New returned
    heap,       \* the proxy.Response values allocated so far, by address
    execs       \* the executions in flight, each with the closure's locals

\* the state of several builds of one endpoint and of concurrent executions
concVars == <<sortTie, pipes, heap, execs>>

VARIABLES
    infraFactory,  \* r.cfg.InfraFactory: "nil", "ok" or "failing"
    autoOptions,   \* the auto_options flag of the router's extra configuration
    endpoints,     \* cfg.Endpoints of the service configuration, in order
    rpc,           \* position of Run: "start", "register", "options", "serve",
                   \* "serving", "returned"
    infra,         \* <<>> or <<the InfraAPI buildInfra returned>>
    epos,          \* index (1-based) of the next endpoint the range loop visits
    epBuilt,       \* the calls of the factory's New so far: endpoint and error
    regErr,        \* the error registerKrakendEndpoints returned
    routes,        \* the routes of the engine: <<method, path>>
    catalog,       \* r.urlCatalog.catalog: path -> methods
    optionRoutes,  \* the paths with an OPTIONS route
    serverStarted  \* TRUE once runServerF has been called

\* the state of the router's Run
routerVars == <<infraFactory, autoOptions, endpoints, rpc, infra, epos, epBuilt,
                regErr, routes, catalog, optionRoutes, serverStarted>>

VARIABLES
    orig,       \* the Request r handed to CloneRequest: pointer fields hold an address
    clone,      \* <<>> or <<the Request CloneRequest returned>>
    objs,       \* the maps, slices, URL and body readers in memory, by address
    cpc,        \* "start" before the call of CloneRequest, "cloned" after it
    snapshot,   \* the content of r before the call, field by field
    writes,     \* number of writes made through r or the clone after the call
    lastWrite,  \* <<>> or <<the request written through, what was written>>
    got         \* per request, <<>> or <<the bytes read from its Body>>

\* the state of one CloneRequest call and of the use of both requests
cloneVars == <<orig, clone, objs, cpc, snapshot, writes, lastWrite, got>>

VARIABLES
    ctxDone     \* the ctx of the running execution: <<>> while it is live, <<k>>
                \* once it is canceled, k being the loop's position at that time

\* what New and one execution of its closure leave alone
otherThanPipe == <<concVars, routerVars, cloneVars>>

\* what the builds and the concurrent executions leave alone
otherThanConc == <<built, proxy, buildErr, pc, request, response, err, pos,
                   calls, last, logged, result, constructed, routerVars, cloneVars,
                   ctxDone>>

\* what Run leaves alone
otherThanRouter == <<pipeVars, concVars, cloneVars, ctxDone>>

\* what CloneRequest and the users of the two requests leave alone
otherThanClone == <<pipeVars, concVars, routerVars, ctxDone>>

vars == <<pipeVars, concVars, routerVars, cloneVars, ctxDone>>

----------------------------------------------------------------------------
(* Bounds and input sets *)

MaxPlugins == 2

Priorities == {1, 10}

Nil == "nil"

\* keys of the pluginFactory map handed to DefaultVicgFactory
Registered == {"IdentifyCheck", "Generic"}

Names == Registered \cup {"Missing"}

\* a declaration: config.PluginConfig (Name, Index and the plugin's own settings)
PluginConfigs ==
    {c \in [Name : Names, Index : Priorities, Extra : {"ok", "malformed"}] :
        c.Extra = "malformed" => c.Name = "Generic"}

RECURSIVE SeqsUpTo(_, _)
SeqsUpTo(S, n) ==
    IF n = 0 THEN {<<>>}
    ELSE LET shorter == SeqsUpTo(S, n - 1)
         IN  shorter \cup {Append(s, x) : s \in {t \in shorter : Len(t) = n - 1}, x \in S}

Perms(n) == {f \in [1..n -> 1..n] : \A i, j \in 1..n : i # j => f[i] # f[j]}

\* a header value of n characters
Token(n) == [i \in 1..n |-> "x"]

HeaderMaps ==
    {<<>>} \cup {("User-Identify" :> <<Token(n)>>) : n \in {19, 20, 21}}

Requests == [Method : {"GET"}, Path : {"/api"}, Headers : HeaderMaps]

\* elapsed seconds of one HandleHTTPMessage call
Spans == {1, 5, 6}

----------------------------------------------------------------------------
(* Plugin factories: VicgPluginFactory.New *)

\* identifycheck.Factory.New: never fails; the instance keeps cfg.Index and
\* cfg.Name. id stands for the pointer identity of the new instance.
IdentifyCheckNew(c, id) ==
    [plugin |-> <<[kind |-> "IdentifyCheck", name |-> c.Name, index |-> c.Index, id |-> id]>>,
     err |-> Nil]

\* any other VicgPluginFactory: it returns an instance, or its own
\* construction-time error (here: for a configuration it rejects)
GenericNew(c, id) ==
    IF c.Extra = "malformed"
    THEN [plugin |-> <<>>, err |-> "malformed config"]
    ELSE [plugin |-> <<[kind |-> "Generic", name |-> c.Name, index |-> c.Index, id |-> id]>>,
          err |-> Nil]

FactoryNew(name, c, id) ==
    IF name = "IdentifyCheck" THEN IdentifyCheckNew(c, id) ELSE GenericNew(c, id)

\* VicgPlugin.Priority
Priority(p) == p.index

\* getPluginFactory: the registry lookup
getPluginFactory(namespace) ==
    IF namespace \in Registered
    THEN [factory |-> <<namespace>>, err |-> Nil]
    ELSE [factory |-> <<>>, err |-> "not found"]

\* createNewPlugin
\* called tells whether the factory's New was invoked
createNewPlugin(c, id) ==
    LET f == getPluginFactory(c.Name)
    IN  IF f.err # Nil
        THEN [plugin |-> <<>>, err |-> f.err, called |-> FALSE]
        ELSE [called |-> TRUE] @@ FactoryNew(f.factory[1], c, id)

----------------------------------------------------------------------------
(* The sort of New *)

\* less with the comparison turned round
lessDescending(p, q) == Priority(p) > Priority(q)

\* the less function handed to sort.Slice
less(p, q) == Priority(p) < Priority(q)

\* sort.Slice(plugins, less). sort.Slice orders by less and promises nothing
\* about elements neither of which is less than the other: tie is the order the
\* library's algorithm happens to leave them in (a ranking of the input
\* positions), identity for a stable outcome.
SortSlice(s, tie) ==
    LET n == Len(s)
        before(i, j) == less(s[i], s[j])
                        \/ (~less(s[j], s[i]) /\ tie[i] < tie[j])
        rank(i) == Cardinality({j \in 1..n : before(j, i)})
    IN  [k \in 1..n |-> s[CHOOSE i \in 1..n : rank(i) = k - 1]]

\* nothing constructed yet: plugins := make([]VicgPlugin, len(cfg.Plugins))
NoneConstructed == [plugins |-> <<>>, lookups |-> <<>>, news |-> <<>>]

\* a loop that calls the factory twice for a declaration and keeps one instance
ConstructedTwice(acc, i, r) ==
    [plugins |-> IF r.err = Nil THEN Append(acc.plugins, r.plugin[1]) ELSE acc.plugins,
     lookups |-> Append(acc.lookups, i),
     news    |-> IF r.called THEN acc.news \o <<i, i>> ELSE acc.news]

\* the loop's state after createNewPlugin returned r for declaration i
Constructed(acc, i, r) ==
    [plugins |-> IF r.err = Nil THEN Append(acc.plugins, r.plugin[1]) ELSE acc.plugins,
     lookups |-> Append(acc.lookups, i),
     news    |-> IF r.called THEN Append(acc.news, i) ELSE acc.news]

\* a construction loop that leaves out the declaration it cannot construct
RECURSIVE ConstructFromSkip(_, _, _)
ConstructFromSkip(decls, i, acc) ==
    IF i > Len(decls)
    THEN [err |-> Nil] @@ acc
    ELSE ConstructFromSkip(decls, i + 1, Constructed(acc, i, createNewPlugin(decls[i], i)))

\* a construction loop that goes on after a failure and reports the first
\* error at its end
RECURSIVE ConstructFromLate(_, _, _)
ConstructFromLate(decls, i, acc) ==
    IF i > Len(decls)
    THEN [err |-> Nil] @@ acc
    ELSE LET r    == createNewPlugin(decls[i], i)
             rest == ConstructFromLate(decls, i + 1, Constructed(acc, i, r))
         IN  IF r.err # Nil
             THEN [rest EXCEPT !.plugins = <<>>, !.err = r.err]
             ELSE rest

\* the construction loop of New: declarations i..Len(plugins), fail-fast
RECURSIVE ConstructFrom(_, _, _)
ConstructFrom(decls, i, acc) ==
    IF i > Len(decls)
    THEN [err |-> Nil] @@ acc
    ELSE LET r == createNewPlugin(decls[i], i)
         IN  IF r.err # Nil
             THEN [Constructed(acc, i, r) EXCEPT !.plugins = <<>>] @@ [err |-> r.err]
             ELSE ConstructFrom(decls, i + 1, Constructed(acc, i, r))

\* what New returns: (closure over the sorted plugins, nil) or (nil, err);
\* did keeps the registry lookups and factory calls it made
NewResult(decls, tie) ==
    LET c   == ConstructFrom(decls, 1, NoneConstructed)
        did == [lookups |-> c.lookups, news |-> c.news]
    IN  IF c.err # Nil
        THEN [proxy |-> <<>>, err |-> c.err, did |-> did]
        ELSE [proxy |-> <<SortSlice(c.plugins, tie)>>, err |-> Nil, did |-> did]

\* defaultVicgFactory.New
New ==
    /\ ~built
    /\ \E tie \in Perms(Len(cfg)) :
         LET r == NewResult(cfg, tie)
         IN  /\ proxy' = r.proxy
             /\ buildErr' = r.err
             /\ constructed' = r.did
    /\ built' = TRUE
    /\ UNCHANGED <<cfg, pc, request, response, err, pos, calls, last, logged,
                   result>>
    /\ UNCHANGED otherThanPipe
    /\ UNCHANGED ctxDone

----------------------------------------------------------------------------
(* Request and Response *)

\* Request.HeaderGet: textproto.MIMEHeader(r.Headers).Get(key), the first value
\* stored under key, "" when there is none
HeaderGet(r, key) ==
    IF key \in DOMAIN r.Headers /\ Len(r.Headers[key]) > 0
    THEN r.Headers[key][1]
    ELSE <<>>

StatusOK == 200

\* the zero value of proxy.Response and of proxy.Request
ZeroResponse ==
    [Data |-> <<>>, IsComplete |-> FALSE,
     Metadata |-> [Headers |-> <<>>, StatusCode |-> 0]]

ZeroRequest == [Method |-> "", Path |-> "", Headers |-> <<>>]

\* the literal without its IsComplete field
NewResponseIncomplete ==
    [Data |-> <<>>, IsComplete |-> FALSE,
     Metadata |-> [Headers |-> ("Content-Type" :> <<"application/VIID+JSON">>),
                   StatusCode |-> StatusOK]]

\* the composite literal the closure allocates on entry
NewResponse ==
    [Data |-> <<>>, IsComplete |-> TRUE,
     Metadata |-> [Headers |-> ("Content-Type" :> <<"application/VIID+JSON">>),
                   StatusCode |-> StatusOK]]

\* Response.WriteHeader
WriteHeader(resp, statusCode) ==
    [resp EXCEPT !.Metadata.StatusCode = statusCode]

\* Response.Write: b unmarshalled replaces the payload map; bytes that are not
\* a JSON object leave the response as it is
Write(resp, b) ==
    IF b.valid THEN [resp EXCEPT !.Data = b.data] ELSE resp

----------------------------------------------------------------------------
(* Plugins: VicgPlugin.HandleHTTPMessage *)

\* what a plugin other than IdentifyCheck may do to the response it is handed
Mutations == {"none", "data", "status"}

Mutate(resp, m, p) ==
    CASE m = "data"   -> Write(resp, [valid |-> TRUE, data |-> (p.id :> Priority(p))])
      [] m = "status" -> WriteHeader(resp, 403)
      [] OTHER        -> resp

IdentifyLen == 20

\* a check that rejects only tokens that are too long
IdentifyCheckHandleMaxOnly(req, resp) ==
    LET identify == HeaderGet(req, "User-Identify")
    IN  IF Len(identify) > IdentifyLen
        THEN [err |-> "identify check failed", resp |-> resp, mut |-> "none"]
        ELSE [err |-> Nil, resp |-> resp, mut |-> "none"]

\* identifycheck.Plugin.HandleHTTPMessage
IdentifyCheckHandle(req, resp) ==
    LET identify == HeaderGet(req, "User-Identify")
    IN  IF Len(identify) # IdentifyLen
        THEN [err |-> "identify check failed", resp |-> resp, mut |-> "none"]
        ELSE [err |-> Nil, resp |-> resp, mut |-> "none"]

\* the possible outcomes of p.HandleHTTPMessage(ctx, request, response)
HandleHTTPMessage(p, req, resp) ==
    IF p.kind = "IdentifyCheck"
    THEN {IdentifyCheckHandle(req, resp)}
    ELSE {[err |-> e, resp |-> Mutate(resp, m, p), mut |-> m] :
            e \in {Nil, "rejected"}, m \in Mutations}

----------------------------------------------------------------------------
(* The executor closure returned by New *)

\* var sec = 5 * time.Second
sec == 5

plugins == proxy[1]

\* entry of the closure: allocate the response, declare err and sec
Call ==
    /\ proxy # <<>>
    /\ pc \in {"idle", "done"}
    /\ \E req \in Requests : request' = req
    /\ response' = NewResponse
    /\ err' = Nil
    /\ pos' = 1
    /\ calls' = <<>>
    /\ last' = <<>>
    /\ logged' = <<>>
    /\ result' = <<>>
    /\ pc' = IF Len(plugins) = 0 THEN "return" ELSE "loop"
    /\ UNCHANGED <<cfg, built, proxy, buildErr, constructed>>
    /\ UNCHANGED otherThanPipe
    /\ ctxDone' = <<>>

\* the log records of one iteration
ErrorRecord(p, e) == [kind |-> "error", index |-> Priority(p), msg |-> e]

SlowRecord(p, span, req) ==
    [kind |-> "slow", index |-> Priority(p), span |-> span,
     method |-> req.Method, path |-> req.Path]

\* the slow-plugin test with >= for >
LogAfterInclusive(log, p, e, span, req) ==
    IF e # Nil THEN Append(log, ErrorRecord(p, e))
    ELSE IF span >= sec THEN Append(log, SlowRecord(p, span, req))
    ELSE log

\* a loop that measures the call before it looks at the error
LogAfterSpanFirst(log, p, e, span, req) ==
    LET timed == IF span > sec THEN Append(log, SlowRecord(p, span, req)) ELSE log
    IN  IF e # Nil THEN Append(timed, ErrorRecord(p, e)) ELSE timed

\* the records one iteration adds: the error record and break, or else the
\* slow-plugin record when the call took more than sec
LogAfter(log, p, e, span, req) ==
    IF e # Nil THEN Append(log, ErrorRecord(p, e))
    ELSE IF span > sec THEN Append(log, SlowRecord(p, span, req))
    ELSE log

\* a loop that stops one element early
NextPcEarly(e, i, n) == IF e # Nil \/ i + 1 >= n THEN "return" ELSE "loop"

\* the loop without its break
NextPcNoBreak(e, i, n) == IF i + 1 > n THEN "return" ELSE "loop"

\* a loop that gives up once ctx is done
NextPcUntilDone(e, i, n) ==
    IF ctxDone # <<>> \/ e # Nil \/ i + 1 > n THEN "return" ELSE "loop"

\* where the loop goes after the iteration at position i
NextPc(e, i, n) == IF e # Nil \/ i + 1 > n THEN "return" ELSE "loop"

\* a loop that visits the same element again
NextPosStuck(i) == i

\* the range loop moves to the next element
NextPos(i) == i + 1

\* one iteration of "for _, p := range plugins"
Iterate ==
    /\ pc = "loop"
    /\ pos <= Len(plugins)
    /\ LET p == plugins[pos]
       IN  \E out \in HandleHTTPMessage(p, request, response), span \in Spans :
             /\ response' = out.resp
             /\ err' = out.err
             /\ calls' = Append(calls, [id |-> p.id, mut |-> out.mut, err |-> out.err])
             /\ last' = <<[id |-> p.id, index |-> Priority(p), kind |-> p.kind,
                          pos |-> pos, span |-> span, err |-> out.err,
                          before |-> response]>>
             /\ logged' = LogAfter(logged, p, out.err, span, request)
             /\ pos' = NextPos(pos)
             /\ pc' = NextPc(out.err, pos, Len(plugins))
    /\ UNCHANGED <<cfg, built, proxy, buildErr, request, result, constructed>>
    /\ UNCHANGED otherThanPipe
    /\ UNCHANGED ctxDone

\* a closure that drops the response when a plugin failed
ReturnValueDiscard(resp, e) ==
    IF e # Nil THEN [resp |-> <<>>, err |-> e] ELSE [resp |-> <<resp>>, err |-> e]

\* a closure that reports every plugin failure as a lookup failure
ReturnValueNotFound(resp, e) ==
    [resp |-> <<resp>>, err |-> IF e # Nil THEN "not found" ELSE e]

\* what the closure hands back
ReturnValue(resp, e) == [resp |-> <<resp>>, err |-> e]

\* return response, err
Return ==
    /\ pc = "return"
    /\ result' = <<ReturnValue(response, err)>>
    /\ pc' = "done"
    /\ UNCHANGED <<cfg, built, proxy, buildErr, request, response, err, pos,
                   calls, last, logged, constructed>>
    /\ UNCHANGED otherThanPipe
    /\ UNCHANGED ctxDone

\* the caller's ctx is canceled while the closure runs: before the first
\* plugin, during a plugin's call or between two plugins (the loop stands at
\* pos), or after the last one. Nothing in the closure reads ctx.
Cancel ==
    /\ pc \in {"loop", "return"}
    /\ ctxDone = <<>>
    /\ ctxDone' = <<pos>>
    /\ UNCHANGED pipeVars
    /\ UNCHANGED otherThanPipe

----------------------------------------------------------------------------

\* nothing built, no execution yet
PipeIdle ==
    /\ built = FALSE
    /\ proxy = <<>>
    /\ buildErr = Nil
    /\ pc = "idle"
    /\ request = ZeroRequest
    /\ response = ZeroResponse
    /\ err = Nil
    /\ pos = 1
    /\ calls = <<>>
    /\ last = <<>>
    /\ logged = <<>>
    /\ result = <<>>
    /\ constructed = [lookups |-> <<>>, news |-> <<>>]
    /\ ctxDone = <<>>

----------------------------------------------------------------------------
(* Several builds of one endpoint, concurrent executions of their closures *)

\* the calls of New for the endpoint, and the goroutines executing closures
Builds == {1, 2}

Execs == {1, 2}

\* the request of goroutine e: the first carries a 20-character identifier,
\* the second a 19-character one
RequestOf(e) ==
    [Method |-> "GET", Path |-> "/api",
     Headers |-> ("User-Identify" :> <<Token(IdentifyLen + 1 - e)>>)]

Unbuilt == [built |-> FALSE, proxy |-> <<>>, err |-> Nil,
            did |-> [lookups |-> <<>>, news |-> <<>>]]

\* invoked: the ids of the plugins the execution has called, in call order
IdleExec == [pc |-> "idle", pipe |-> 0, request |-> ZeroRequest, resp |-> 0,
             err |-> Nil, pos |-> 1, invoked |-> <<>>, result |-> <<>>]

ConcIdle ==
    /\ sortTie = <<>>
    /\ pipes = [k \in Builds |-> Unbuilt]
    /\ heap = <<>>
    /\ execs = [e \in Execs |-> IdleExec]

\* an allocation that hands out one and the same response
AllocAddrShared(h) == 1

\* &proxy.Response{...}: a new value at an address nothing else holds
AllocAddr(h) == Len(h) + 1

Store(h, a, v) == IF a > Len(h) THEN Append(h, v) ELSE [h EXCEPT ![a] = v]

\* a factory that keeps only the pipeline it built last
PipesAfterBuildLast(k, r) ==
    [j \in Builds |-> IF j = k THEN [built |-> TRUE] @@ r ELSE Unbuilt]

\* New returns r to its k-th caller; what it returned before is not touched
PipesAfterBuild(k, r) ==
    [pipes EXCEPT ![k] = [built |-> TRUE] @@ r]

\* defaultVicgFactory.New, called for the k-th time on the same endpoint
Build(k) ==
    /\ ~pipes[k].built
    /\ pipes' = PipesAfterBuild(k, NewResult(cfg, sortTie))
    /\ UNCHANGED <<cfg, sortTie, heap, execs>>
    /\ UNCHANGED otherThanConc

\* the plugins the closure of build k captured
PluginsOf(k) == pipes[k].proxy[1]

\* goroutine e enters the closure of build k
CallC(e, k) ==
    /\ pipes[k].proxy # <<>>
    /\ execs[e].pc = "idle"
    /\ LET a == AllocAddr(heap)
       IN  /\ heap' = Store(heap, a, NewResponse)
           /\ execs' = [execs EXCEPT ![e] =
                  [pc |-> IF Len(PluginsOf(k)) = 0 THEN "return" ELSE "loop",
                   pipe |-> k, request |-> RequestOf(e), resp |-> a, err |-> Nil,
                   pos |-> 1, invoked |-> <<>>, result |-> <<>>]]
    /\ UNCHANGED <<cfg, sortTie, pipes>>
    /\ UNCHANGED otherThanConc

\* one loop iteration of goroutine e
IterateC(e) ==
    LET x  == execs[e]
    IN  /\ x.pc = "loop"
        /\ x.pos <= Len(PluginsOf(x.pipe))
        /\ LET p == PluginsOf(x.pipe)[x.pos]
           IN  \E out \in HandleHTTPMessage(p, x.request, heap[x.resp]) :
                 /\ heap' = [heap EXCEPT ![x.resp] = out.resp]
                 /\ execs' = [execs EXCEPT ![e] =
                        [x EXCEPT !.err = out.err,
                                  !.invoked = Append(x.invoked, p.id),
                                  !.pos = NextPos(x.pos),
                                  !.pc = NextPc(out.err, x.pos, Len(PluginsOf(x.pipe)))]]
        /\ UNCHANGED <<cfg, sortTie, pipes>>
        /\ UNCHANGED otherThanConc

\* goroutine e returns response, err
ReturnC(e) ==
    /\ execs[e].pc = "return"
    /\ execs' = [execs EXCEPT ![e] =
           [execs[e] EXCEPT !.result = <<ReturnValue(execs[e].resp, execs[e].err)>>,
                            !.pc = "done"]]
    /\ UNCHANGED <<cfg, sortTie, pipes, heap>>
    /\ UNCHANGED otherThanConc

----------------------------------------------------------------------------
(* The router: ginRouter.Run *)

MaxEndpoints == 2

\* cfg.Plugins of an endpoint of the service: no plugin or one declaration
EndpointPlugins ==
    {<<>>} \cup {<<c>> : c \in {d \in PluginConfigs : d.Index = 1}}

\* c.Method as configured
Methods == {"get", "post", "TRACE"}

\* config.EndpointConfig: Endpoint is the path, Backend is len(c.Backend)
EndpointConfigs(i) ==
    [Endpoint : {i}, Method : Methods, Backend : {1, 2}, Plugins : EndpointPlugins]

EndpointLists ==
    UNION {{es \in [1..n -> UNION {EndpointConfigs(i) : i \in 1..n}] :
               \A i \in 1..n : es[i].Endpoint = i} : n \in 0..MaxEndpoints}

RouterIdle ==
    /\ infraFactory = "nil"
    /\ autoOptions = FALSE
    /\ endpoints = <<>>
    /\ rpc = "start"
    /\ infra = <<>>
    /\ epos = 1
    /\ epBuilt = <<>>
    /\ regErr = Nil
    /\ routes = {}
    /\ catalog = <<>>
    /\ optionRoutes = {}
    /\ serverStarted = FALSE

\* strings.ToTitle, on the configured methods
ToTitle(m) ==
    CASE m = "get"  -> "GET"
      [] m = "post" -> "POST"
      [] OTHER      -> m

\* the methods the switch of registerKrakendEndpoint has a case for
SwitchMethods == {"GET", "POST", "PUT", "PATCH", "DELETE"}

\* a buildInfra that drops the factory's error
buildInfraNoError(f) ==
    IF f = "nil" THEN [api |-> <<>>, err |-> Nil] ELSE [api |-> <<"api">>, err |-> Nil]

\* ginRouter.buildInfra: (nil, nil) without a factory, else what its New returns
buildInfra(f) ==
    CASE f = "nil"     -> [api |-> <<>>, err |-> Nil]
      [] f = "ok"      -> [api |-> <<"api">>, err |-> Nil]
      [] f = "failing" -> [api |-> <<>>, err |-> "infra failed"]

\* Run up to the err check after buildInfra
RunStart ==
    /\ rpc = "start"
    /\ LET r == buildInfra(infraFactory)
       IN  /\ infra' = r.api
           /\ rpc' = IF r.err # Nil THEN "returned" ELSE "register"
    /\ UNCHANGED <<infraFactory, autoOptions, endpoints, epos, epBuilt, regErr,
                   routes, catalog, optionRoutes, serverStarted>>
    /\ UNCHANGED otherThanRouter

\* ginRouter.registerKrakendEndpoint; valid is IsValidSequentialEndpoint(e)
registerKrakendEndpoint(rt, cat, e, valid) ==
    LET method == ToTitle(e.Method)
        path   == e.Endpoint
    IN  IF method # "GET" /\ e.Backend > 1 /\ ~valid
        THEN [routes |-> rt, catalog |-> cat]
        ELSE IF method \notin SwitchMethods
        THEN [routes |-> rt, catalog |-> cat]
        ELSE [routes  |-> rt \cup {<<method, path>>},
              catalog |-> IF path \in DOMAIN cat
                          THEN [cat EXCEPT ![path] = Append(@, method)]
                          ELSE cat @@ (path :> <<method>>)]

\* a loop that leaves out the endpoint whose build failed and goes on
AfterBuildSkip(e, i) == [rpc |-> "register", epos |-> i + 1, regErr |-> Nil]

\* the loop of registerKrakendEndpoints after New returned e for endpoint i:
\* return err, or go on with the next endpoint
AfterBuild(e, i) ==
    IF e # Nil
    THEN [rpc |-> "options", epos |-> i, regErr |-> e]
    ELSE [rpc |-> "register", epos |-> i + 1, regErr |-> Nil]

\* one iteration of the loop of registerKrakendEndpoints
RegisterNext ==
    /\ rpc = "register"
    /\ epos <= Len(endpoints)
    /\ LET c == endpoints[epos]
       IN  \E tie \in Perms(Len(c.Plugins)), valid \in BOOLEAN :
             LET r    == NewResult(c.Plugins, tie)
                 then == AfterBuild(r.err, epos)
                 reg  == registerKrakendEndpoint(routes, catalog, c, valid)
             IN  /\ epBuilt' = Append(epBuilt, [endpoint |-> epos, err |-> r.err])
                 /\ rpc' = then.rpc
                 /\ epos' = then.epos
                 /\ regErr' = then.regErr
                 /\ routes' = IF r.err = Nil THEN reg.routes ELSE routes
                 /\ catalog' = IF r.err = Nil THEN reg.catalog ELSE catalog
    /\ UNCHANGED <<infraFactory, autoOptions, endpoints, infra, optionRoutes,
                   serverStarted>>
    /\ UNCHANGED otherThanRouter

\* the loop of registerKrakendEndpoints ends: return nil
RegisterLoopEnd ==
    /\ rpc = "register"
    /\ epos > Len(endpoints)
    /\ rpc' = "options"
    /\ regErr' = Nil
    /\ UNCHANGED <<infraFactory, autoOptions, endpoints, infra, epos, epBuilt,
                   routes, catalog, optionRoutes, serverStarted>>
    /\ UNCHANGED otherThanRouter

\* a Run that goes on to the server whatever registration returned
AfterRegisterAlways(e) == "serve"

\* Run after registerEndpointsAndMiddlewares returned e
AfterRegister(e) == IF e # Nil THEN "returned" ELSE "serve"

\* the rest of registerEndpointsAndMiddlewares (registerOptionEndpoints when
\* auto_options is set) and the err check of Run
RegisterOptions ==
    /\ rpc = "options"
    /\ optionRoutes' = IF autoOptions THEN DOMAIN catalog ELSE optionRoutes
    /\ rpc' = AfterRegister(regErr)
    /\ UNCHANGED <<infraFactory, autoOptions, endpoints, infra, epos, epBuilt,
                   regErr, routes, catalog, serverStarted>>
    /\ UNCHANGED otherThanRouter

\* r.runServerF is called
RunServer ==
    /\ rpc = "serve"
    /\ serverStarted' = TRUE
    /\ rpc' = "serving"
    /\ UNCHANGED <<infraFactory, autoOptions, endpoints, infra, epos, epBuilt,
                   regErr, routes, catalog, optionRoutes>>
    /\ UNCHANGED otherThanRouter

\* r.runServerF returns and Run ends
ServerStopped ==
    /\ rpc = "serving"
    /\ rpc' = "returned"
    /\ UNCHANGED <<infraFactory, autoOptions, endpoints, infra, epos, epBuilt,
                   regErr, routes, catalog, optionRoutes, serverStarted>>
    /\ UNCHANGED otherThanRouter

----------------------------------------------------------------------------
(* proxy.CloneRequest *)

MaxWrites == 1

\* a nil pointer, map or reader
NilAddr == <<>>

\* the fields of Request that are maps with plain values
MapFields == {"Query", "Params", "Data", "Private", "Reserved"}

\* the fields of Request that refer to memory
PointerFields == MapFields \cup {"URL", "Headers", "Body"}

\* the bytes of the request body
BodyBytes == <<1, 2>>

\* what a field of r refers to before the call; a header value is a slice
\* of its own
InitialContent(f, off) ==
    CASE f = "URL"        -> ("Host" :> "h")
      [] f = "Headers"    -> ("k" :> <<"r", "Headers[k]">>)
      [] f = "Headers[k]" -> <<"v">>
      [] f = "Body"       -> [data |-> BodyBytes, off |-> off]
      [] OTHER            -> ("k" :> "v")

\* the request r with the fields of present set, and the memory they refer to
RequestWith(present) ==
    [Method |-> "GET", Path |-> "/api", RemoteAddr |-> "10.0.0.1",
     ContentLength |-> Len(BodyBytes)]
    @@ [f \in PointerFields |-> IF f \in present THEN <<"r", f>> ELSE NilAddr]

ObjectsOf(present, off) ==
    LET fs == present \cup (IF "Headers" \in present THEN {"Headers[k]"} ELSE {})
    IN  [a \in {<<"r", f>> : f \in fs} |-> InitialContent(a[2], off)]

\* the zero value of Request
ZeroCloneRequest ==
    [Method |-> "", Path |-> "", RemoteAddr |-> "", ContentLength |-> 0]
    @@ [f \in PointerFields |-> NilAddr]

\* the bytes a reader has left
Remaining(b) == SubSeq(b.data, b.off + 1, Len(b.data))

\* what field f of req holds, followed through memory h; a nil map reads as
\* an empty one
Content(req, h, f) ==
    CASE f \in {"Method", "Path", "RemoteAddr", "ContentLength"} -> req[f]
      [] f = "Headers" ->
            IF req[f] = NilAddr THEN <<>>
            ELSE [k \in DOMAIN h[req[f]] |-> h[h[req[f]][k]]]
      [] f = "Body" ->
            IF req[f] = NilAddr THEN <<>> ELSE Remaining(h[req[f]])
      [] OTHER -> IF req[f] = NilAddr THEN <<>> ELSE h[req[f]]

\* everything a holder of req can observe without reading the body
ViewFields == {"Method", "Path", "RemoteAddr", "URL", "Headers"} \cup MapFields

View(req, h) == [f \in ViewFields |-> Content(req, h, f)]

CloneIdle ==
    /\ orig = ZeroCloneRequest
    /\ clone = <<>>
    /\ objs = <<>>
    /\ cpc = "start"
    /\ snapshot = <<>>
    /\ writes = 0
    /\ lastWrite = <<>>
    /\ got = [r |-> <<>>, clone |-> <<>>]

\* Request.Clone: a struct literal with eight of the fields
Clone(r) ==
    [ZeroCloneRequest EXCEPT !.Method = r.Method, !.URL = r.URL, !.Query = r.Query,
                             !.Path = r.Path, !.Body = r.Body, !.Params = r.Params,
                             !.Headers = r.Headers, !.RemoteAddr = r.RemoteAddr]

\* CloneRequestHeaders: a new map, with a new slice for every key
CloneRequestHeaders(a, h) ==
    LET hm == IF a = NilAddr THEN <<>> ELSE h[a]
    IN  [addr |-> <<"clone", "Headers">>,
         objs |-> ((<<"clone", "Headers">> :> [k \in DOMAIN hm |-> <<"clone", "Headers[k]">>])
                   @@ [x \in {<<"clone", "Headers[k]">> : k \in DOMAIN hm} |->
                          h[hm["k"]]]
                   @@ h)]

\* CloneRequestParams: a new map with the same entries
CloneRequestParams(a, h) ==
    LET pm == IF a = NilAddr THEN <<>> ELSE h[a]
    IN  [addr |-> <<"clone", "Params">>,
         objs |-> ((<<"clone", "Params">> :> [k \in DOMAIN pm |-> pm[k]]) @@ h)]

\* CloneRequest: the returned clone, r as the call leaves it, and memory
CloneRequestResult(r, h) ==
    LET hs == CloneRequestHeaders(r.Headers, h)
        ps == CloneRequestParams(r.Params, hs.objs)
        c  == [Clone(r) EXCEPT !.Headers = hs.addr, !.Params = ps.addr]
    IN  IF r.Body = NilAddr
        THEN [r |-> r, clone |-> c, objs |-> ps.objs]
        ELSE LET old  == ps.objs[r.Body]
                 rest == Remaining(old)
             IN  [r     |-> [r EXCEPT !.Body = <<"r", "NewReader">>],
                  clone |-> [c EXCEPT !.Body = <<"clone", "Buffer">>],
                  objs  |-> ((<<"r", "NewReader">> :> [data |-> rest, off |-> 0])
                             @@ (<<"clone", "Buffer">> :> [data |-> rest, off |-> 0])
                             @@ [ps.objs EXCEPT ![r.Body] =
                                    [old EXCEPT !.off = Len(old.data)]])]

\* clone := CloneRequest(r)
CloneRequest ==
    /\ cpc = "start"
    /\ LET res == CloneRequestResult(orig, objs)
       IN  /\ orig' = res.r
           /\ clone' = <<res.clone>>
           /\ objs' = res.objs
    /\ cpc' = "cloned"
    /\ UNCHANGED <<snapshot, writes, lastWrite, got>>
    /\ UNCHANGED otherThanClone

\* what a holder of a request can write to: an entry of one of its maps, a
\* field of its URL, a key of its headers (deleted), an element of a header value
WriteTargets == MapFields \cup {"URL", "Headers", "Headers[k]"}

CanWrite(req, h, t) ==
    CASE t = "Headers"    -> req.Headers # NilAddr /\ "k" \in DOMAIN h[req.Headers]
      [] t = "Headers[k]" -> req.Headers # NilAddr /\ "k" \in DOMAIN h[req.Headers]
      [] OTHER            -> req[t] # NilAddr

\* memory after the write
Written(req, h, t) ==
    CASE t = "URL"        -> [h EXCEPT ![req.URL] = ("Host" :> "w")]
      [] t = "Headers"    -> [h EXCEPT ![req.Headers] = <<>>]
      [] t = "Headers[k]" -> [h EXCEPT ![h[req.Headers]["k"]] = <<"w">>]
      [] OTHER            -> [h EXCEPT ![req[t]] = ("k" :> "w")]

\* the request a side holds
Held(side) == IF side = "r" THEN orig ELSE clone[1]

\* a holder of r or of the clone writes through it
WriteThrough(side, t) ==
    /\ cpc = "cloned"
    /\ writes < MaxWrites
    /\ CanWrite(Held(side), objs, t)
    /\ objs' = Written(Held(side), objs, t)
    /\ writes' = writes + 1
    /\ lastWrite' = <<side, t>>
    /\ UNCHANGED <<orig, clone, cpc, snapshot, got>>
    /\ UNCHANGED otherThanClone

\* a holder of r or of the clone reads its Body to the end
ReadBody(side) ==
    /\ cpc = "cloned"
    /\ got[side] = <<>>
    /\ Held(side).Body # NilAddr
    /\ LET a == Held(side).Body
           b == objs[a]
       IN  /\ got' = [got EXCEPT ![side] = <<Remaining(b)>>]
           /\ objs' = [objs EXCEPT ![a] = [b EXCEPT !.off = Len(b.data)]]
    /\ UNCHANGED <<orig, clone, cpc, snapshot, writes, lastWrite>>
    /\ UNCHANGED otherThanClone

----------------------------------------------------------------------------

Init ==
    /\ cfg \in SeqsUpTo(PluginConfigs, MaxPlugins)
    /\ PipeIdle
    /\ ConcIdle
    /\ RouterIdle
    /\ CloneIdle

Next == New \/ Call \/ Iterate \/ Return

Spec == Init /\ [][Next]_vars

\* the endpoints whose build succeeds
Buildable == {c \in PluginConfigs : c.Name \in Registered /\ c.Extra = "ok"}

InitConc ==
    /\ cfg \in SeqsUpTo(Buildable, MaxPlugins)
    /\ PipeIdle
    /\ sortTie \in Perms(Len(cfg))
    /\ pipes = [k \in Builds |-> Unbuilt]
    /\ heap = <<>>
    /\ execs = [e \in Execs |-> IdleExec]
    /\ RouterIdle
    /\ CloneIdle

NextConc ==
    \/ Build(1)
    \/ \E e \in Execs : CallC(e, 1)
    \/ \E e \in Execs : IterateC(e)
    \/ \E e \in Execs : ReturnC(e)

SpecConc == InitConc /\ [][NextConc]_vars

\* The endpoint built twice, from any declarations; goroutine k executes the
\* closure of build k.
InitTwice ==
    /\ cfg \in SeqsUpTo(PluginConfigs, MaxPlugins)
    /\ PipeIdle
    /\ sortTie \in Perms(Len(cfg))
    /\ pipes = [k \in Builds |-> Unbuilt]
    /\ heap = <<>>
    /\ execs = [e \in Execs |-> IdleExec]
    /\ RouterIdle
    /\ CloneIdle

NextTwice ==
    \/ \E k \in Builds : Build(k)
    \/ \E k \in Builds : CallC(k, k)
    \/ \E e \in Execs : IterateC(e)
    \/ \E e \in Execs : ReturnC(e)

SpecTwice == InitTwice /\ [][NextTwice]_vars

\* One Run of the router over a service configuration
InitRouter ==
    /\ cfg = <<>>
    /\ PipeIdle
    /\ ConcIdle
    /\ infraFactory \in {"nil", "ok", "failing"}
    /\ autoOptions \in BOOLEAN
    /\ endpoints \in EndpointLists
    /\ rpc = "start"
    /\ infra = <<>>
    /\ epos = 1
    /\ epBuilt = <<>>
    /\ regErr = Nil
    /\ routes = {}
    /\ catalog = <<>>
    /\ optionRoutes = {}
    /\ serverStarted = FALSE
    /\ CloneIdle

NextRouter ==
    \/ RunStart
    \/ RegisterNext
    \/ RegisterLoopEnd
    \/ RegisterOptions
    \/ RunServer
    \/ ServerStopped

SpecRouter == InitRouter /\ [][NextRouter]_vars

\* One call of CloneRequest on a request, then the use of both requests
InitClone ==
    /\ cfg = <<>>
    /\ PipeIdle
    /\ ConcIdle
    /\ RouterIdle
    /\ \E present \in SUBSET PointerFields, off \in {0, 1} :
         /\ orig = RequestWith(present)
         /\ objs = ObjectsOf(present, off)
    /\ clone = <<>>
    /\ cpc = "start"
    /\ snapshot = [f \in ViewFields \cup {"Body"} |-> Content(orig, objs, f)]
    /\ writes = 0
    /\ lastWrite = <<>>
    /\ got = [r |-> <<>>, clone |-> <<>>]

NextClone ==
    \/ CloneRequest
    \/ \E side \in {"r", "clone"}, t \in WriteTargets : WriteThrough(side, t)
    \/ \E side \in {"r", "clone"} : ReadBody(side)

SpecClone == InitClone /\ [][NextClone]_vars

\* Executions of one endpoint's pipeline whose ctx may be canceled
InitCancel ==
    /\ cfg \in SeqsUpTo(Buildable, MaxPlugins)
    /\ PipeIdle
    /\ ConcIdle
    /\ RouterIdle
    /\ CloneIdle

NextCancel == New \/ Call \/ Iterate \/ Return \/ Cancel

SpecCancel == InitCancel /\ [][NextCancel]_vars

----------------------------------------------------------------------------
(* Properties *)

\* ids of the plugins invoked so far in the running execution, in call order
Invoked == [i \in 1..Len(calls) |-> calls[i].id]

\* the declaration a plugin instance was constructed from
DeclOf(p) == cfg[p.id]

\* the captured list holds one instance per declaration, each carrying the
\* priority its declaration gives it
IsOrderingOfCfg(ps) ==
    /\ Len(ps) = Len(cfg)
    /\ {ps[i].id : i \in 1..Len(ps)} = 1..Len(cfg)
    /\ \A i \in 1..Len(ps) : Priority(ps[i]) = DeclOf(ps[i]).Index

\* C1: after a successful build the captured plugin list is ordered by
\* non-decreasing priority, and the plugins an execution has invoked so far are
\* exactly the leading plugins of that list, in list order: of two invoked
\* plugins with different priorities the lower one ran first.
C1_SortedAndInvokedInOrder ==
    proxy # <<>> =>
        /\ IsOrderingOfCfg(plugins)
        /\ \A i, j \in 1..Len(plugins) :
             i < j => Priority(plugins[i]) <= Priority(plugins[j])
        /\ Len(calls) <= Len(plugins)
        /\ \A i \in 1..Len(calls) : Invoked[i] = plugins[i].id
        /\ \A i, j \in 1..Len(calls) :
             cfg[Invoked[i]].Index < cfg[Invoked[j]].Index => i < j

\* A (priority 10) declared before B (priority 1); an execution ran B, then A
C1_Witness ==
    /\ Len(cfg) = 2
    /\ cfg[1].Index = 10
    /\ cfg[2].Index = 1
    /\ pc = "done"
    /\ Invoked = <<2, 1>>

\* C2: the order is stable: of two plugins with equal priority the one
\* declared earlier stands earlier in the captured list and is invoked earlier.
C2_StableOrder ==
    proxy # <<>> =>
        /\ \A i, j \in 1..Len(plugins) :
             (Priority(plugins[i]) = Priority(plugins[j]) /\ plugins[i].id < plugins[j].id)
                 => i < j
        /\ \A i, j \in 1..Len(calls) :
             (cfg[Invoked[i]].Index = cfg[Invoked[j]].Index /\ Invoked[i] < Invoked[j])
                 => i < j

----------------------------------------------------------------------------

\* the plugin instance with the given id
PluginOf(id) == plugins[CHOOSE i \in 1..Len(plugins) : plugins[i].id = id]

\* the response a sequence of calls leaves behind when each call's mutation is
\* applied, in call order, to the default envelope
RECURSIVE Replay(_)
Replay(cs) ==
    IF cs = <<>> THEN NewResponse
    ELSE LET c == cs[Len(cs)]
         IN  Mutate(Replay(SubSeq(cs, 1, Len(cs) - 1)), c.mut, PluginOf(c.id))

AllNil(cs) == \A i \in 1..Len(cs) : cs[i].err = Nil

\* the step is the entry of a new execution
IsCallStep == pc \in {"idle", "done"} /\ pc' \in {"loop", "return"}

\* C3: once the plugin at position k has returned an error, the plugins invoked
\* in that execution are exactly those at positions 1..k, and no further plugin
\* is invoked until the execution is over.
C3_NoInvocationAfterError ==
    [][(last # <<>> /\ last[1].err # Nil) =>
          /\ Len(calls) = last[1].pos
          /\ \A i \in 1..Len(calls) : Invoked[i] = plugins[i].id
          /\ (calls' = calls \/ IsCallStep)]_vars

\* a plugin failed and a later plugin of the list was left out
C3_Witness ==
    /\ pc = "done"
    /\ last # <<>>
    /\ last[1].err # Nil
    /\ last[1].pos < Len(plugins)
    /\ Len(calls) = last[1].pos

\* C4: when a plugin returns an error the closure returns a non-nil response
\* together with that error, and the response is the default envelope with
\* the mutations of every invoked plugin, the failing one included, applied in
\* order: nothing is rolled back or dropped.
C4_ErrorKeepsResponse ==
    (result # <<>> /\ ~AllNil(calls)) =>
        /\ result[1].err = last[1].err
        /\ result[1].err # Nil
        /\ result[1].resp # <<>>
        /\ result[1].resp[1] = Replay(calls)

\* an earlier plugin wrote the payload, the failing plugin set the status
C4_Witness ==
    /\ result # <<>>
    /\ Len(calls) = 2
    /\ calls[1].mut = "data"
    /\ calls[1].err = Nil
    /\ calls[2].mut = "status"
    /\ calls[2].err # Nil
    /\ result[1].resp[1].Data # <<>>
    /\ result[1].resp[1].Metadata.StatusCode = 403

\* C5: an execution in which no plugin returned an error invokes every plugin
\* of the list and returns a nil error and a response whose IsComplete is true.
C5_AllSucceed ==
    (pc = "done" /\ AllNil(calls)) =>
        /\ Invoked = [i \in 1..Len(plugins) |-> plugins[i].id]
        /\ result # <<>>
        /\ result[1].err = Nil
        /\ result[1].resp # <<>>
        /\ result[1].resp[1].IsComplete = TRUE

C5_Witness ==
    /\ pc = "done"
    /\ Len(plugins) = 2
    /\ Len(calls) = 2
    /\ AllNil(calls)
    /\ calls[1].mut # "none"

FullSuccess ==
    /\ result[1].err = Nil
    /\ Len(calls) = Len(plugins)
    /\ AllNil(calls)

ShortCircuit ==
    /\ result[1].err # Nil
    /\ calls # <<>>
    /\ calls[Len(calls)].err = result[1].err
    /\ AllNil(SubSeq(calls, 1, Len(calls) - 1))

\* C6: no plugin is invoked twice in one execution; a finished execution is
\* either a full success or a first-error short-circuit, never both; and its
\* outcome, once returned, stays until the next execution starts.
C6_OneOutcome ==
    [][/\ \A i, j \in 1..Len(calls) : i # j => calls[i].id # calls[j].id
       /\ (pc = "done" => (result # <<>> /\ (FullSuccess # ShortCircuit)))
       /\ (result # <<>> => (result' = result \/ IsCallStep))]_vars

C6_Witness ==
    /\ pc = "done"
    /\ result # <<>>
    /\ ShortCircuit
    /\ Len(calls) = 2

----------------------------------------------------------------------------

HasUnknownName == \E i \in 1..Len(cfg) : cfg[i].Name \notin Registered

\* the first declaration New cannot construct is one with an unknown name
UnknownNameFailsFirst ==
    \E i \in 1..Len(cfg) :
        /\ cfg[i].Name \notin Registered
        /\ \A j \in 1..(i - 1) :
             cfg[j].Name \in Registered /\ cfg[j].Extra # "malformed"

\* nothing of the endpoint can be invoked
NoPipeline ==
    /\ proxy = <<>>
    /\ pc = "idle"
    /\ calls = <<>>
    /\ result = <<>>

\* C7 as stated: a build over a declaration list with an unknown name returns
\* the "not found" error and no pipeline.
C7_UnknownNameNotFound ==
    (built /\ HasUnknownName) => (buildErr = "not found" /\ NoPipeline)

\* C7 (amended): a build over a declaration list with an unknown name returns
\* an error and no pipeline, wherever the name stands; the error is "not
\* found" when no declaration before the first unknown name fails to construct.
C7_UnknownNameNoPipeline ==
    (built /\ HasUnknownName) =>
        /\ buildErr # Nil
        /\ NoPipeline
        /\ (UnknownNameFailsFirst => buildErr = "not found")

\* the unknown name comes last, after a declaration that constructs
C7_Witness ==
    /\ built
    /\ Len(cfg) = 2
    /\ cfg[1].Name \in Registered
    /\ cfg[1].Extra = "ok"
    /\ cfg[2].Name \notin Registered
    /\ buildErr = "not found"
    /\ proxy = <<>>

\* the default envelope, field by field
IsDefaultEnvelope(r) ==
    /\ r.Data = <<>>
    /\ r.IsComplete = TRUE
    /\ r.Metadata.StatusCode = 200
    /\ DOMAIN r.Metadata.Headers = {"Content-Type"}
    /\ r.Metadata.Headers["Content-Type"] = <<"application/VIID+JSON">>

\* C8: an execution that has not yet invoked a plugin holds the default
\* envelope (empty payload, 200, only the Content-Type header, complete),
\* whatever earlier executions did to theirs; a pipeline without plugins
\* returns that envelope and a nil error.
C8_FreshEnvelope ==
    /\ (pc # "idle" /\ calls = <<>>) => IsDefaultEnvelope(response)
    /\ (pc = "done" /\ proxy # <<>> /\ Len(plugins) = 0) =>
          /\ result # <<>>
          /\ result[1].err = Nil
          /\ result[1].resp # <<>>
          /\ IsDefaultEnvelope(result[1].resp[1])

\* the empty pipeline has returned
C8_Witness ==
    /\ pc = "done"
    /\ proxy # <<>>
    /\ Len(plugins) = 0
    /\ result # <<>>
    /\ IsDefaultEnvelope(result[1].resp[1])

\* the length of the request's User-Identify value, 0 when it has none
IdentifyLength ==
    IF "User-Identify" \in DOMAIN request.Headers
    THEN Len(request.Headers["User-Identify"][1])
    ELSE 0

\* C9: when the identity check has just run on a token of length 19, it
\* returned an error, left the response as it found it (the default envelope
\* when it ran first), the loop is over with no later plugin invoked and the
\* closure returns a non-nil error; on a token of length 20 it returned nil,
\* left the response as it found it, and the loop goes on to the next plugin.
C9_IdentifyCheck ==
    (last # <<>> /\ last[1].kind = "IdentifyCheck") =>
        /\ response = last[1].before
        /\ IdentifyLength = 19 =>
             /\ last[1].err # Nil
             /\ err # Nil
             /\ pc \in {"return", "done"}
             /\ Len(calls) = last[1].pos
             /\ (last[1].pos = 1 => response.Data = <<>>)
             /\ (result # <<>> => result[1].err # Nil)
        /\ IdentifyLength = 20 =>
             /\ last[1].err = Nil
             /\ err = Nil
             /\ (last[1].pos < Len(plugins) => (pc = "loop" /\ pos = last[1].pos + 1))

\* the identity check ran first on a 19-character token and a later plugin
\* was left out
C9_Witness ==
    /\ pc = "done"
    /\ last # <<>>
    /\ last[1].kind = "IdentifyCheck"
    /\ last[1].pos = 1
    /\ Len(plugins) = 2
    /\ IdentifyLength = 19
    /\ result[1].err # Nil

\* the step is one HandleHTTPMessage call
IsIterateStep == Len(calls') = Len(calls) + 1

\* C10: a call that returns nil after more than 5 seconds (6) adds exactly one
\* slow-plugin record, naming the plugin's priority; one that returns nil
\* within 5 seconds (1, 5) adds none; and the loop goes on or ends by the
\* call's result and position alone, whatever the call took.
C10_SlowDiagnostic ==
    [][IsIterateStep =>
          LET l == last'[1]
          IN  /\ (l.err = Nil /\ l.span > 5) =>
                   /\ Len(logged') = Len(logged) + 1
                   /\ SubSeq(logged', 1, Len(logged)) = logged
                   /\ logged'[Len(logged')].kind = "slow"
                   /\ logged'[Len(logged')].index = cfg[l.id].Index
                   /\ logged'[Len(logged')].span = l.span
              /\ (l.err = Nil /\ l.span <= 5) => logged' = logged
              /\ err' = l.err
              /\ pc' = IF l.err # Nil \/ l.pos = Len(plugins) THEN "return" ELSE "loop"]_vars

\* a call took 6 seconds, returned nil and left one slow-plugin record
C10_Witness ==
    /\ last # <<>>
    /\ last[1].span = 6
    /\ last[1].err = Nil
    /\ Len(calls) = 1
    /\ Len(logged) = 1
    /\ logged[1].kind = "slow"
    /\ logged[1].index = last[1].index

----------------------------------------------------------------------------

\* the declaration cannot be constructed: its name is not registered, or its
\* factory rejects its configuration
Fails(c) == c.Name \notin Registered \/ c.Extra = "malformed"

\* the error constructing the declaration gives
FailureOf(c) == IF c.Name \notin Registered THEN "not found" ELSE "malformed config"

\* i is the first declaration of cfg that cannot be constructed
IsFirstFailure(i) ==
    /\ i \in 1..Len(cfg)
    /\ Fails(cfg[i])
    /\ \A j \in 1..(i - 1) : ~Fails(cfg[j])

\* C16: when the construction of the i-th declaration is the first to fail,
\* New returns that declaration's error and no pipeline, it has looked up and
\* constructed only declarations 1..i, in order, each once, and nothing of
\* the endpoint can be invoked.
C16_FailFastBuild ==
    \A i \in 1..Len(cfg) :
        (built /\ IsFirstFailure(i)) =>
            /\ buildErr = FailureOf(cfg[i])
            /\ NoPipeline
            /\ constructed.lookups = [k \in 1..i |-> k]
            /\ constructed.news =
                 [k \in 1..(IF cfg[i].Name \in Registered THEN i ELSE i - 1) |-> k]

\* the first declaration's factory rejects its configuration and a second
\* declaration follows it
C16_Witness ==
    /\ built
    /\ Len(cfg) = 2
    /\ cfg[1].Extra = "malformed"
    /\ ~Fails(cfg[2])
    /\ buildErr = "malformed config"
    /\ constructed.news = <<1>>

\* k is the first call of the execution that returned an error
IsFirstFailingCall(k) ==
    /\ k \in 1..Len(calls)
    /\ calls[k].err # Nil
    /\ \A j \in 1..(k - 1) : calls[j].err = Nil

\* C20: an error the closure returns is the error the first failing
\* HandleHTTPMessage call of that execution returned, never the registry's
\* "not found" nor a factory's error; those are returned by New alone, and
\* an endpoint whose build returned one is never executed.
C20_NoConfigErrorAtRequestTime ==
    /\ (result # <<>> /\ result[1].err # Nil) =>
          /\ \E k \in 1..Len(calls) :
                IsFirstFailingCall(k) /\ result[1].err = calls[k].err
          /\ result[1].err \notin {"not found", "malformed config"}
    /\ err \notin {"not found", "malformed config"}
    /\ buildErr # Nil => (pc = "idle" /\ result = <<>>)
    /\ buildErr \in {Nil, "not found", "malformed config"}

\* the second plugin failed and the closure returned its error
C20_Witness ==
    /\ result # <<>>
    /\ Len(calls) = 2
    /\ calls[1].err = Nil
    /\ calls[2].err = "rejected"
    /\ result[1].err = "rejected"

----------------------------------------------------------------------------
(* Two builds of one endpoint; concurrent executions of one pipeline *)

\* goroutine e took a step
Stepped(e) == execs'[e] # execs[e]

\* a step of goroutine e leaves every other goroutine, and the response the
\* other one holds, as they were
LeavesOthersAlone(e) ==
    \A o \in Execs \ {e} :
        /\ execs'[o] = execs[o]
        /\ execs[o].resp # 0 => heap'[execs[o].resp] = heap[execs[o].resp]

Entered == {e \in Execs : execs[e].resp # 0}

\* C18: concurrent executions of one pipeline each own their response: two
\* executions never hold the same response, a step of one execution changes
\* neither the other execution nor the other's response, and no step of an
\* execution changes the pipeline's plugin list.
C18_ExecutionsIsolated ==
    [][/\ \A e, o \in Entered' : e # o => execs'[e].resp # execs'[o].resp
       /\ \A e \in Execs : Stepped(e) => (pipes' = pipes /\ LeavesOthersAlone(e))]_vars

\* both goroutines are inside the loop of the same pipeline at once, past
\* the first plugin, and their responses differ
C18_Witness ==
    /\ execs[1].pc = "loop" /\ execs[2].pc = "loop"
    /\ execs[1].pipe = 1 /\ execs[2].pipe = 1
    /\ execs[1].pos = 2 /\ execs[2].pos = 2
    /\ heap[execs[1].resp].Data # heap[execs[2].resp].Data

\* C19: a successful build looked up and constructed each declaration exactly
\* once, in declaration order, whatever number of requests have been
\* executed since; the executions call the instances of that one build, in
\* the pipeline's order.
C19_InstantiatedOncePerBuild ==
    (pipes[1].built /\ pipes[1].err = Nil) =>
        /\ pipes[1].did.news = [i \in 1..Len(cfg) |-> i]
        /\ pipes[1].did.lookups = [i \in 1..Len(cfg) |-> i]
        /\ Len(PluginsOf(1)) = Len(cfg)
        /\ {PluginsOf(1)[j].id : j \in 1..Len(cfg)} = 1..Len(cfg)
        /\ \A e \in Entered :
              /\ Len(execs[e].invoked) <= Len(cfg)
              /\ \A j \in 1..Len(execs[e].invoked) :
                    execs[e].invoked[j] = PluginsOf(1)[j].id

\* two requests have gone through both plugins of the pipeline
C19_Witness ==
    /\ pipes[1].built /\ pipes[1].err = Nil
    /\ Len(cfg) = 2
    /\ \A e \in Execs : execs[e].pc = "done" /\ Len(execs[e].invoked) = 2

----------------------------------------------------------------------------
(* The router's start-up *)

\* the endpoints whose build has been called
Attempted == {epBuilt[j].endpoint : j \in 1..Len(epBuilt)}

\* the positions in epBuilt of the builds that returned an error
FailedBuilds == {j \in 1..Len(epBuilt) : epBuilt[j].err # Nil}

\* the paths that have a route
RoutedPaths == {rt[2] : rt \in routes}

\* C12: when InfraFactory.New fails, Run returns at once: no endpoint
\* pipeline is ever built, no route is ever registered and the server is
\* never started.
C12_InfraFailureRefusesStart ==
    infraFactory = "failing" =>
        /\ rpc \in {"start", "returned"}
        /\ epBuilt = <<>>
        /\ routes = {} /\ catalog = <<>> /\ optionRoutes = {}
        /\ ~serverStarted

\* Run has returned after a failing InfraFactory.New, with endpoints declared
C12_Witness ==
    /\ infraFactory = "failing"
    /\ rpc = "returned"
    /\ Len(endpoints) = MaxEndpoints

\* C13 as stated: a failing build aborts only its own endpoint, so once the
\* registration is over every declared endpoint has been built, the ones
\* after a failure included.
C13_LaterEndpointsStillBuilt ==
    (rpc \in {"options", "serve", "serving", "returned"} /\ infraFactory # "failing") =>
        Attempted = 1..Len(endpoints)

\* C13 amended: a failing build ends the registration: it is the last build
\* Run makes, the endpoints declared after it are never built nor
\* registered, the failing endpoint gets no route, and the routes of the
\* endpoints before it stay.
C13_FailureEndsRegistration ==
    [][/\ \A j \in FailedBuilds' :
            /\ j = Len(epBuilt')
            /\ Attempted' = 1..epBuilt'[j].endpoint
            /\ RoutedPaths' \subseteq 1..(epBuilt'[j].endpoint - 1)
            /\ rpc' \in {"options", "returned"}
       /\ FailedBuilds # {} => (epBuilt' = epBuilt /\ routes' = routes)]_vars

\* Run has returned after the first of two endpoints failed to build
C13_Witness ==
    /\ rpc = "returned"
    /\ Len(endpoints) = 2
    /\ Len(epBuilt) = 1
    /\ epBuilt[1].err # Nil
    /\ NewResult(endpoints[2].Plugins, <<1>>).err = Nil

\* C17: whenever runServerF has been called, the build of every declared
\* endpoint has returned, all of them without error; and once a build has
\* failed the server is not started.
C17_ServerAfterAllBuilt ==
    /\ serverStarted =>
          /\ Len(epBuilt) = Len(endpoints)
          /\ \A j \in 1..Len(epBuilt) : epBuilt[j].endpoint = j /\ epBuilt[j].err = Nil
    /\ FailedBuilds # {} => (~serverStarted /\ rpc \notin {"serve", "serving"})

\* the server runs with the pipelines of two endpoints built
C17_Witness ==
    /\ serverStarted
    /\ rpc = "serving"
    /\ Len(endpoints) = 2
    /\ Len(epBuilt) = 2

----------------------------------------------------------------------------
(* CloneRequest: what the two requests share, what the clone carries *)

\* the latest step was a write through side
WroteThrough(side) == writes' = writes + 1 /\ lastWrite'[1] = side

\* C14: after CloneRequest, a write made through the clone (to its headers,
\* params, query, URL or free-form maps) changes nothing that r shows, and a
\* write made through r changes nothing that the clone shows.
C14_CloneSharesNothing ==
    [][/\ WroteThrough("clone") => View(orig', objs') = View(orig, objs)
       /\ WroteThrough("r") => View(clone'[1], objs') = View(clone[1], objs)]_vars

\* the fields C15 names, other than the body
CopiedFields ==
    {"Method", "Path", "Headers", "Query", "Params", "Data", "Private", "Reserved"}

\* C15: the clone carries the method, path, headers, query, path parameters,
\* application data, private and reserved maps r had before the call, and
\* the body read from r and the body read from the clone are each the bytes
\* r's body held before the call.
C15_CloneIsFullCopy ==
    (cpc = "cloned" /\ writes = 0) =>
        /\ \A f \in CopiedFields : Content(clone[1], objs, f) = snapshot[f]
        /\ got.r # <<>> => got.r[1] = snapshot["Body"]
        /\ got.clone # <<>> => got.clone[1] = snapshot["Body"]

----------------------------------------------------------------------------
(* Log records of failing calls *)

\* the records of one kind in a log
OfKind(log, k) == {i \in 1..Len(log) : log[i].kind = k}

\* the calls of the execution that returned nil
Succeeded == {i \in 1..Len(calls) : calls[i].err = Nil}

\* C21: a call that returns an error adds exactly one record, the error
\* record with the plugin's priority and the error's message, and no
\* slow-plugin record, whatever the call took; hence after every call the
\* slow-plugin records are at most as many as the calls that returned nil,
\* and the error records as many as the calls that returned an error.
C21_ErrorLogsOnce ==
    [][IsIterateStep =>
          LET l == last'[1]
          IN  /\ l.err # Nil =>
                   logged' = Append(logged, [kind |-> "error", index |-> cfg[l.id].Index,
                                             msg |-> l.err])
              /\ Cardinality(OfKind(logged', "slow")) <= Cardinality(Succeeded')
              /\ Cardinality(OfKind(logged', "error")) =
                     Len(calls') - Cardinality(Succeeded')]_vars

\* the second plugin failed after 6 seconds; the first one was slow too
C21_Witness ==
    /\ last # <<>>
    /\ last[1].span = 6
    /\ last[1].err # Nil
    /\ Len(calls) = 2
    /\ Len(logged) = 2
    /\ logged[1].kind = "slow"
    /\ logged[2].kind = "error"

----------------------------------------------------------------------------
(* Cancellation of the caller's context *)

\* C22: the closure does not react to the cancellation of ctx. The
\* cancellation itself changes nothing of the execution (no plugin is
\* preempted, the loop stays where it is); with ctx canceled, the loop still
\* calls the plugin it stands at, moves on by one, and ends only on an error
\* or after the last plugin; and an execution that ends with ctx canceled
\* and no plugin error has invoked every plugin in order and returns a nil
\* error.
C22_CancellationIgnored ==
    [][/\ (ctxDone = <<>> /\ ctxDone' # <<>>) =>
             (pc' = pc /\ pos' = pos /\ calls' = calls /\ response' = response /\
              err' = err /\ logged' = logged /\ result' = result)
       /\ (ctxDone # <<>> /\ IsIterateStep) =>
             /\ last'[1].id = plugins[pos].id
             /\ pos' = pos + 1
             /\ pc' = IF last'[1].err # Nil \/ pos = Len(plugins)
                      THEN "return" ELSE "loop"
       /\ (ctxDone' # <<>> /\ pc' = "done" /\ AllNil(calls')) =>
             /\ Invoked' = [i \in 1..Len(plugins) |-> plugins[i].id]
             /\ result'[1].err = Nil
             /\ result'[1].resp = <<response'>>]_vars

\* ctx was canceled while the first of two plugins ran; the second plugin was
\* invoked all the same and the execution ended as a full success
C22_Witness ==
    /\ ctxDone = <<1>>
    /\ pc = "done"
    /\ Len(plugins) = 2
    /\ Len(calls) = 2
    /\ AllNil(calls)
    /\ result[1].err = Nil

============================================================================
